---- MODULE Spec2Model ----
(***************************************************************************)
(* Model of promo_bot (src/app.py): the promo_codes table, the functions   *)
(* that read and write it, and the Telegram handlers that call them.       *)
(*                                                                         *)
(* Every SQL statement is one atomic step (sqlite serialises statements    *)
(* of separate connections; INSERT/UPDATE and the commit that follows are  *)
(* one step because the writer holds the reserved lock in between).        *)
(* Spec lets the calls of several callers interleave between statements;   *)
(* SpecSeq runs one handler at a time. Any store statement may fail.       *)
(* get_code_info, a read whose result only goes into a reply, is left out. *)
(***************************************************************************)
EXTENDS Integers, Sequences, FiniteSets, Bags, TLC

(* ---------------------------- bounds ---------------------------------- *)
NumProcs == 2
NumCodes == 2

(* ------------------------- configuration ------------------------------ *)
CODE_LENGTH == 8
CODE_PREFIX == <<"D", "C">>
DISCOUNT_TEMPLATE == "10%"
MAX_ATTEMPTS == 10

(* string.ascii_uppercase + string.digits *)
Alphabet ==
  <<"A", "B", "C", "D", "E", "F", "G", "H", "I", "J", "K", "L", "M",
    "N", "O", "P", "Q", "R", "S", "T", "U", "V", "W", "X", "Y", "Z",
    "0", "1", "2", "3", "4", "5", "6", "7", "8", "9">>

Procs == 1..NumProcs
Users == {"@staff", "@alice"}
ADMIN_USER_NAMES == {"@staff"}
MemberStatuses == {"member", "administrator", "creator"}

(* the replies of get_chat_member that are tried for each user: the status
   of the reply, or "raise" when the call fails *)
OracleReplies(u) ==
  IF u \in ADMIN_USER_NAMES
    THEN {"administrator", "creator", "restricted", "raise"}
    ELSE {"member", "left", "kicked", "raise"}

(* a nullable column or an Optional value: <<>> is NULL / None *)
Null == <<>>
Some(v) == <<v>>

(* ------------------------- code strings ------------------------------- *)
(* the k-th sample of random.choices(Alphabet, k=CODE_LENGTH) *)
RandomPart(k) == [i \in 1..CODE_LENGTH |-> IF i = CODE_LENGTH THEN Alphabet[k] ELSE "A"]

(* mutant: the prefix is left out *)
MakeCodeNoPrefix(random_part) == random_part

MakeCode(random_part) == IF CODE_PREFIX # <<>> THEN CODE_PREFIX \o random_part ELSE random_part

Code(k) == MakeCode(RandomPart(k))

Codes == {Code(k) : k \in 1..NumCodes}

CodeUniverse == {Code(k) : k \in 1..Len(Alphabet)}

StartsWith(s, pre) == Len(s) >= Len(pre) /\ SubSeq(s, 1, Len(pre)) = pre

RECURSIVE LStrip(_)
LStrip(s) == IF s # <<>> /\ Head(s) = " " THEN LStrip(Tail(s)) ELSE s

RECURSIVE RStrip(_)
RStrip(s) == IF s # <<>> /\ s[Len(s)] = " " THEN RStrip(SubSeq(s, 1, Len(s) - 1)) ELSE s

Strip(s) == RStrip(LStrip(s))

LooksLikeCode(text) ==
  \/ CODE_PREFIX # <<>> /\ StartsWith(text, CODE_PREFIX)
  \/ Len(text) = Len(CODE_PREFIX) + CODE_LENGTH

(* what staff type *)
Texts == Codes \cup {Code(1) \o <<" ">>, <<"h", "i">>}

(* what read_qr_code_from_image returns: None or the decoded text *)
QRTexts == {Null} \cup {Some(c) : c \in Codes}


(* rows: the table; clock: the time; issued, redeemed: the calls that
   succeeded so far (Issue by identity, Redeem by code); pc..sel: where each
   caller is and its locals (sel: what its SELECTs fetched so far); conn:
   whether the caller's operation holds an open connection; ret, leaked: what
   the step just taken reported and how many connections it left open with
   nothing to close them *)
VARIABLES rows, clock, issued, redeemed, pc, user, status, arg, attempts, sel, conn, ret, leaked

vars == <<rows, clock, issued, redeemed, pc, user, status, arg, attempts, sel, conn, ret, leaked>>

(* ------------------------- the table ---------------------------------- *)
(* mutant: is_used defaults to TRUE *)
NewRowUsed(code, discount_value, issued_to) ==
  [code |-> code, discount_value |-> discount_value, is_used |-> TRUE,
   used_at |-> Null, issued_to |-> issued_to, used_by |-> Null]

(* mutant: the INSERT leaves issued_to out *)
NewRowNoIssuee(code, discount_value, issued_to) ==
  [code |-> code, discount_value |-> discount_value, is_used |-> FALSE,
   used_at |-> Null, issued_to |-> Null, used_by |-> Null]

(* a row of promo_codes as the INSERT leaves it. id, created_at and
   issued_at are written here and read by no branch of the program; the
   row's position in rows stands for id *)
NewRow(code, discount_value, issued_to) ==
  [code |-> code, discount_value |-> discount_value, is_used |-> FALSE,
   used_at |-> Null, issued_to |-> issued_to, used_by |-> Null]

RowsWithCode(code) == {i \in 1..Len(rows) : rows[i].code = code}

RowsIssuedTo(user_name) == {i \in 1..Len(rows) : rows[i].issued_to = Some(user_name)}

Min(S) == CHOOSE x \in S : \A y \in S : x <= y

(* cur.fetchone() of SELECT ... WHERE code = ? *)
FetchByCode(code) ==
  IF RowsWithCode(code) = {} THEN Null ELSE Some(rows[Min(RowsWithCode(code))])

(* what the step just taken reported, if it ended a handler: what the
   user was told (kind) and what the called function returned (code, value) *)
Ret(kind, code, value) == [kind |-> kind, code |-> code, value |-> value]
NoRet == Ret("None", Null, Null)

Init ==
  /\ rows = <<>>
  /\ clock = 0
  /\ issued = EmptyBag
  /\ redeemed = EmptyBag
  /\ pc = [p \in Procs |-> "idle"]
  /\ user = [p \in Procs |-> ""]
  /\ status = [p \in Procs |-> ""]
  /\ arg = [p \in Procs |-> Null]
  /\ attempts = [p \in Procs |-> 0]
  /\ sel = [p \in Procs |-> Null]
  /\ conn = [p \in Procs |-> FALSE]
  /\ ret = NoRet
  /\ leaked = 0

(* the handler starts and goes on to label l with its locals set *)
Begin(p, l, u, st, a) ==
  /\ pc' = [pc EXCEPT ![p] = l]
  /\ user' = [user EXCEPT ![p] = u]
  /\ status' = [status EXCEPT ![p] = st]
  /\ arg' = [arg EXCEPT ![p] = a]
  /\ attempts' = [attempts EXCEPT ![p] = 0]
  /\ sel' = [sel EXCEPT ![p] = Null]
  /\ ret' = NoRet

(* the handler ends with outcome r: its locals are gone *)
End(p, r) ==
  /\ pc' = [pc EXCEPT ![p] = "idle"]
  /\ user' = [user EXCEPT ![p] = ""]
  /\ status' = [status EXCEPT ![p] = ""]
  /\ arg' = [arg EXCEPT ![p] = Null]
  /\ attempts' = [attempts EXCEPT ![p] = 0]
  /\ sel' = [sel EXCEPT ![p] = Null]
  /\ ret' = r

(* the handler goes on to label l *)
Goto(p, l) ==
  /\ pc' = [pc EXCEPT ![p] = l]
  /\ ret' = NoRet

(* the step touches no connection *)
NoConn(p) == conn' = conn /\ leaked' = 0

(* sqlite3.connect(...) was run and conn.close() was not: the operation goes
   on with its connection open *)
Hold(p) == conn' = [conn EXCEPT ![p] = TRUE] /\ leaked' = 0

(* conn.close() was run *)
Close(p) == conn' = [conn EXCEPT ![p] = FALSE] /\ leaked' = 0

(* an exception left the function between sqlite3.connect(...) and
   conn.close(): the local is gone and the connection is still open *)
Drop(p) == conn' = [conn EXCEPT ![p] = FALSE] /\ leaked' = 1

(* ---------------- button_handler, data = "get_promo" ------------------ *)
(* mutant: everyone who is not banned counts as subscribed *)
IsSubscribedNotBanned(st) == st # "kicked"

IsSubscribed(st) == st \in MemberStatuses

(* the handler up to and including the reply of get_chat_member; st = "raise"
   is the oracle failing *)
ButtonGetPromo(p, u, st) ==
  /\ pc[p] = "idle"
  /\ IF st # "raise" /\ IsSubscribed(st)
       THEN Begin(p, "has_recv", u, st, Null)
       ELSE End(p, Ret(IF st = "raise" THEN "Error" ELSE "NotSubscribed", Null, Null))
  /\ NoConn(p)
  /\ UNCHANGED <<rows, clock, issued, redeemed>>

(* has_user_received_code, and the branch of button_handler on its result;
   f: the store fails and button_handler catches the exception *)
HasUserReceivedCode(p, f) ==
  /\ pc[p] = "has_recv"
  /\ IF f
       THEN End(p, Ret("Error", Null, Null)) /\ Drop(p)
       ELSE /\ Close(p)
            /\ IF RowsIssuedTo(user[p]) # {}
                 THEN End(p, Ret("AlreadyIssued", Null, Null))
                 ELSE /\ Goto(p, "gen")
                      /\ UNCHANGED <<user, status, arg, attempts, sel>>
  /\ UNCHANGED <<rows, clock, issued, redeemed>>

(* mutant: generate_unique_code returns the code it drew without looking
   it up *)
GenerateUniqueCodeNoCheck(p, c, f) ==
  /\ pc[p] = "gen"
  /\ IF f
       THEN End(p, Ret("Error", Null, Null)) /\ Drop(p)
       ELSE /\ Close(p)
            /\ arg' = [arg EXCEPT ![p] = c]
            /\ Goto(p, "precheck")
            /\ UNCHANGED <<user, status, attempts, sel>>
  /\ UNCHANGED <<rows, clock, issued, redeemed>>

(* one iteration of the while True of generate_unique_code drawing code c;
   its exception leaves create_promo_code_for_user (line 77 is outside the
   try) and is caught by button_handler *)
GenerateUniqueCode(p, c, f) ==
  /\ pc[p] = "gen"
  /\ IF f
       THEN End(p, Ret("Error", Null, Null)) /\ Drop(p)
       ELSE /\ Close(p)
            /\ arg' = [arg EXCEPT ![p] = c]
            /\ Goto(p, IF FetchByCode(c) # Null THEN "gen" ELSE "precheck")
            /\ UNCHANGED <<user, status, attempts, sel>>
  /\ UNCHANGED <<rows, clock, issued, redeemed>>

(* mutant: the loop test is off by one *)
LoopTestOffByOne(n) == n <= MAX_ATTEMPTS

(* the test of while attempts < MAX_ATTEMPTS *)
LoopTest(n) == n < MAX_ATTEMPTS

(* create_promo_code_for_user returns (None, None); button_handler reports it *)
GenerationFailed(p) == End(p, Ret("GenerationFailed", Null, Null))

(* a collision: attempts += 1 and back to the loop test *)
Collision(p) ==
  IF LoopTest(attempts[p] + 1)
    THEN /\ Goto(p, "gen")
         /\ attempts' = [attempts EXCEPT ![p] = @ + 1]
         /\ UNCHANGED <<user, status, arg, sel>>
    ELSE GenerationFailed(p)

(* the SELECT of the try block *)
PreCheck(p, f) ==
  /\ pc[p] = "precheck"
  /\ IF f
       THEN GenerationFailed(p) /\ Close(p)
       ELSE IF FetchByCode(arg[p]) # Null
              THEN Collision(p) /\ Close(p)
              ELSE /\ Goto(p, "insert")
                   /\ Hold(p)
                   /\ UNCHANGED <<user, status, arg, attempts, sel>>
  /\ UNCHANGED <<rows, clock, issued, redeemed>>

(* mutant: the code column has no UNIQUE constraint *)
InsertOutcomeNoUnique(code, issued_to, f) ==
  CASE f -> "other"
    [] ~f /\ (code = Null \/ issued_to = Null) -> "notnull"
    [] OTHER -> "ok"

(* what the INSERT and its commit do: the constraints of the table *)
InsertOutcome(code, issued_to, f) ==
  CASE f -> "other"
    [] ~f /\ (code = Null \/ issued_to = Null) -> "notnull"
    [] ~f /\ code # Null /\ issued_to # Null /\ RowsWithCode(code[1]) # {} -> "unique"
    [] OTHER -> "ok"

DeliverOutcomes == {"ok", "photo_fail", "edit_fail"}

(* generate_qr_code, send_photo and edit_message_text with the code; a
   failure of any of them is caught by button_handler *)
Delivered(o) ==
  CASE o = "ok" -> "CodeSent"
    [] o = "edit_fail" -> "PhotoOnly"
    [] OTHER -> "Undelivered"

(* mutant: every failure of the INSERT is retried *)
OnInsertErrorRetryAll(p, outcome) == Collision(p)

(* the except clauses: a collision is retried, anything else is not *)
OnInsertError(p, outcome) ==
  IF outcome = "unique" THEN Collision(p) ELSE GenerationFailed(p)

(* the INSERT, the commit, the except clauses and the finally; on success
   button_handler delivers the code with outcome o *)
Insert(p, f, o) ==
  /\ pc[p] = "insert"
  /\ LET outcome == InsertOutcome(Some(arg[p]), Some(user[p]), f) IN
       IF outcome = "ok"
         THEN /\ rows' = Append(rows, NewRow(arg[p], DISCOUNT_TEMPLATE, Some(user[p])))
              /\ issued' = issued (+) SetToBag({user[p]})
              /\ End(p, Ret(Delivered(o), Some(arg[p]), Some(DISCOUNT_TEMPLATE)))
         ELSE /\ OnInsertError(p, outcome)
              /\ UNCHANGED <<rows, issued>>
  /\ Close(p)
  /\ UNCHANGED <<clock, redeemed>>

(* ------------------- handle_text and handle_photo --------------------- *)
(* handle_text up to the call of apply_promo_code *)
HandleText(p, u, txt) ==
  /\ pc[p] = "idle"
  /\ LET text == Strip(txt) IN
       IF u \in ADMIN_USER_NAMES
         THEN IF LooksLikeCode(text)
                THEN Begin(p, "ap_select", u, "", text)
                ELSE End(p, Ret("Prompt", Null, Null))
         ELSE End(p, Ret("AdminsOnly", Null, Null))
  /\ NoConn(p)
  /\ UNCHANGED <<rows, clock, issued, redeemed>>

(* handle_photo up to the call of apply_promo_code; qr_text is what
   read_qr_code_from_image returned *)
HandlePhoto(p, u, qr_text) ==
  /\ pc[p] = "idle"
  /\ IF qr_text # Null /\ qr_text[1] # <<>>
       THEN Begin(p, "ap_select", u, "", qr_text[1])
       ELSE End(p, Ret("NoQR", Null, Null))
  /\ NoConn(p)
  /\ UNCHANGED <<rows, clock, issued, redeemed>>

(* apply_promo_code returns (success, message) and the handler replies *)
ApplyReturns(p, kind, value) == End(p, Ret(kind, Some(arg[p]), value))

(* an exception of the store leaves apply_promo_code and the handler *)
Raises(p) == End(p, Ret("Raised", Null, Null))

(* Python's "not issued_to" *)
Falsy(v) == v = Null \/ v[1] = ""

(* mutant: the missing row and the missing issuee are one check *)
ApplyChecksMerged(result) ==
  CASE result = Null -> "NotIssued"
    [] result # Null /\ Falsy(result[1].issued_to) -> "NotIssued"
    [] result # Null /\ ~Falsy(result[1].issued_to) /\ result[1].is_used -> "AlreadyUsed"
    [] OTHER -> "ok"

(* mutant: apply_promo_code does not look at is_used *)
ApplyChecksNoUsed(result) ==
  CASE result = Null -> "CodeNotFound"
    [] result # Null /\ Falsy(result[1].issued_to) -> "NotIssued"
    [] OTHER -> "ok"

(* the three checks of apply_promo_code on the fetched row *)
ApplyChecks(result) ==
  CASE result = Null -> "CodeNotFound"
    [] result # Null /\ Falsy(result[1].issued_to) -> "NotIssued"
    [] result # Null /\ ~Falsy(result[1].issued_to) /\ result[1].is_used -> "AlreadyUsed"
    [] OTHER -> "ok"

(* apply_promo_code: the SELECT and the checks on its result *)
ApplySelect(p, f) ==
  /\ pc[p] = "ap_select"
  /\ IF f
       THEN Raises(p) /\ Drop(p)
       ELSE LET result == FetchByCode(arg[p]) IN
              IF ApplyChecks(result) # "ok"
                THEN ApplyReturns(p, ApplyChecks(result), Null) /\ Close(p)
                ELSE /\ Goto(p, "ap_update")
                     /\ Hold(p)
                     /\ sel' = [sel EXCEPT ![p] = result]
                     /\ UNCHANGED <<user, status, arg, attempts>>
  /\ UNCHANGED <<rows, clock, issued, redeemed>>

(* mutant: the UPDATE does not set used_by *)
MarkUsedNoActor(code, used_at, used_by) ==
  [i \in 1..Len(rows) |->
     IF rows[i].code = code
       THEN [rows[i] EXCEPT !.is_used = TRUE, !.used_at = Some(used_at)]
       ELSE rows[i]]

(* UPDATE promo_codes SET is_used = TRUE, used_at = ?, used_by = ? WHERE code = ? *)
MarkUsed(code, used_at, used_by) ==
  [i \in 1..Len(rows) |->
     IF rows[i].code = code
       THEN [rows[i] EXCEPT !.is_used = TRUE, !.used_at = Some(used_at), !.used_by = used_by]
       ELSE rows[i]]

(* datetime.now(): every committed UPDATE reads a later time than the last *)
Now == clock

(* apply_promo_code: the UPDATE, the commit and the return *)
ApplyUpdate(p, f) ==
  /\ pc[p] = "ap_update"
  /\ IF f
       THEN /\ Raises(p)
            /\ Drop(p)
            /\ UNCHANGED <<rows, clock, issued, redeemed>>
       ELSE /\ rows' = MarkUsed(arg[p], Now, Some(user[p]))
            /\ clock' = clock + 1
            /\ redeemed' = redeemed (+) SetToBag({arg[p]})
            /\ issued' = issued
            /\ ApplyReturns(p, "Redeemed", Some(sel[p][1].discount_value))
            /\ Close(p)

(* --------------------------- admin_stats ------------------------------ *)
(* SELECT COUNT( * ) FROM promo_codes [WHERE ...] *)
CountAll == Len(rows)
CountIssued == Cardinality({i \in 1..Len(rows) : rows[i].issued_to # Null})
(* mutant: the third query counts the rows that are not used *)
CountUsedInverted == Cardinality({i \in 1..Len(rows) : rows[i].is_used = FALSE})

CountUsed == Cardinality({i \in 1..Len(rows) : rows[i].is_used = TRUE})

(* the four numbers of the reply *)
StatsText(total, issued_, used) ==
  [total |-> total, issued |-> issued_, used |-> used, active |-> issued_ - used]

(* admin_stats up to the first query *)
AdminStats(p, u) ==
  /\ pc[p] = "idle"
  /\ IF u \notin ADMIN_USER_NAMES
       THEN End(p, Ret("NoRights", Null, Null))
       ELSE Begin(p, "st_total", u, "", Null)
  /\ NoConn(p)
  /\ UNCHANGED <<rows, clock, issued, redeemed>>

(* one of the first two queries: its count is kept and label l is next *)
StatsQuery(p, f, count, l) ==
  /\ IF f
       THEN Raises(p) /\ Drop(p)
       ELSE /\ Goto(p, l)
            /\ Hold(p)
            /\ sel' = [sel EXCEPT ![p] = Append(@, count)]
            /\ UNCHANGED <<user, status, arg, attempts>>
  /\ UNCHANGED <<rows, clock, issued, redeemed>>

StatsTotal(p, f) == pc[p] = "st_total" /\ StatsQuery(p, f, CountAll, "st_issued")

StatsIssued(p, f) == pc[p] = "st_issued" /\ StatsQuery(p, f, CountIssued, "st_used")

(* the third query, conn.close() and the reply *)
StatsUsed(p, f) ==
  /\ pc[p] = "st_used"
  /\ IF f
       THEN Raises(p) /\ Drop(p)
       ELSE /\ End(p, Ret("Stats", Null, Some(StatsText(sel[p][1], sel[p][2], CountUsed))))
            /\ Close(p)
  /\ UNCHANGED <<rows, clock, issued, redeemed>>

(* ------------------------- specifications ----------------------------- *)
Step(p) ==
  \/ \E u \in Users : \E st \in OracleReplies(u) : ButtonGetPromo(p, u, st)
  \/ \E f \in BOOLEAN : HasUserReceivedCode(p, f)
  \/ \E c \in Codes, f \in BOOLEAN : GenerateUniqueCode(p, c, f)
  \/ \E f \in BOOLEAN : PreCheck(p, f)
  \/ \E f \in BOOLEAN, o \in DeliverOutcomes : Insert(p, f, o)
  \/ \E u \in Users, txt \in Texts : HandleText(p, u, txt)
  \/ \E u \in Users, qr \in QRTexts : HandlePhoto(p, u, qr)
  \/ \E f \in BOOLEAN : ApplySelect(p, f)
  \/ \E f \in BOOLEAN : ApplyUpdate(p, f)
  \/ \E u \in Users : AdminStats(p, u)
  \/ \E f \in BOOLEAN : StatsTotal(p, f)
  \/ \E f \in BOOLEAN : StatsIssued(p, f)
  \/ \E f \in BOOLEAN : StatsUsed(p, f)

Next == \E p \in Procs : Step(p)

Spec == Init /\ [][Next]_vars

(* one handler at a time: the dispatcher awaits each handler *)
NextSeq == \E p \in Procs : (\A q \in Procs \ {p} : pc[q] = "idle") /\ Step(p)

SpecSeq == Init /\ [][NextSeq]_vars

(* a schedule of Spec in which MAX_ATTEMPTS further identities ask for a
   code, every caller draws the least free code and nothing fails: caller 1
   is the one whose attempts are used up *)
ExhaustUsers ==
  <<"@u01", "@u02", "@u03", "@u04", "@u05", "@u06", "@u07", "@u08", "@u09", "@u10">>

LeastFreeCode == Code(Len(rows) + 1)

StepExhaust(p) ==
  \/ /\ Len(rows) < MAX_ATTEMPTS
     /\ ButtonGetPromo(p, IF p = 1 THEN "@alice" ELSE ExhaustUsers[Len(rows) + 1], "member")
  \/ HasUserReceivedCode(p, FALSE)
  \/ /\ Len(rows) < Len(Alphabet)
     /\ GenerateUniqueCode(p, LeastFreeCode, FALSE)
  \/ PreCheck(p, FALSE)
  \/ Insert(p, FALSE, "ok")

NextExhaust == \E p \in Procs : StepExhaust(p)

SpecExhaust == Init /\ [][NextExhaust]_vars

(* the get_promo requests of Spec alone, with what keeps a call running: a
   caller that can take a step without a failure of the store takes one
   (the interpreter runs on), and a caller that draws again and again draws
   a code that is free, if there is one (random.choices) *)
StepIssue(p) ==
  \/ \E u \in Users : \E st \in OracleReplies(u) : ButtonGetPromo(p, u, st)
  \/ \E f \in BOOLEAN : HasUserReceivedCode(p, f)
  \/ \E c \in Codes, f \in BOOLEAN : GenerateUniqueCode(p, c, f)
  \/ \E f \in BOOLEAN : PreCheck(p, f)
  \/ \E f \in BOOLEAN, o \in DeliverOutcomes : Insert(p, f, o)

NextIssue == \E p \in Procs : StepIssue(p)

Proceeds(p) ==
  \/ HasUserReceivedCode(p, FALSE)
  \/ \E c \in Codes : GenerateUniqueCode(p, c, FALSE)
  \/ PreCheck(p, FALSE)
  \/ \E o \in DeliverOutcomes : Insert(p, FALSE, o)

DrawsFree(p) == \E c \in Codes : FetchByCode(c) = Null /\ GenerateUniqueCode(p, c, FALSE)

SpecLive ==
  /\ Init
  /\ [][NextIssue]_vars
  /\ \A p \in Procs : WF_vars(Proceeds(p)) /\ SF_vars(DrawsFree(p))

(* =========================== properties =============================== *)
Admins == {Some(a) : a \in ADMIN_USER_NAMES}
IssueLabels == {"gen", "precheck", "insert"}
IssuedKinds == {"CodeSent", "PhotoOnly", "Undelivered"}
UsedRows == {i \in 1..Len(rows) : rows[i].is_used}

(* C1: two overlapping Redeem calls on the same issued, unused code give
   exactly one success: no code is ever redeemed successfully twice. *)
C1_OneSuccessPerCode == \A c \in CodeUniverse : CopiesIn(c, redeemed) <= 1

(* C2: with non-overlapping calls, a Redeem that finds its code unused
   marks it used by the caller and returns the discount value stored in the
   row; a Redeem that finds it used returns AlreadyUsed and changes no row;
   a used row keeps its used_at and used_by; no code succeeds twice. *)
C2_SingleUse ==
  [][ /\ \A c \in CodeUniverse : CopiesIn(c, redeemed') <= 1
      /\ \A i \in UsedRows : i <= Len(rows') /\ rows'[i] = rows[i]
      /\ \A p \in Procs :
           LET found == FetchByCode(arg[p]) IN
           /\ (pc[p] = "ap_select" /\ pc'[p] # "ap_select" /\ found # Null /\ ret'.kind # "Raised") =>
                IF found[1].is_used
                  THEN ret' = Ret("AlreadyUsed", Some(arg[p]), Null) /\ rows' = rows
                  ELSE pc'[p] = "ap_update" /\ rows' = rows
           /\ (pc[p] = "ap_update" /\ pc'[p] # "ap_update" /\ ret'.kind # "Raised") =>
                /\ found # Null /\ ~found[1].is_used
                /\ ret' = Ret("Redeemed", Some(arg[p]), Some(found[1].discount_value))
                /\ CopiesIn(arg[p], redeemed') = 1
                /\ \A i \in 1..Len(rows) :
                     rows'[i] = IF rows[i].code = arg[p]
                                  THEN [rows[i] EXCEPT !.is_used = TRUE,
                                                       !.used_at = Some(clock),
                                                       !.used_by = Some(user[p])]
                                  ELSE rows[i]
    ]_vars

C2_Witness ==
  /\ ret.kind = "AlreadyUsed"
  /\ \E i \in UsedRows : Some(rows[i].code) = ret.code /\ CopiesIn(rows[i].code, redeemed) = 1

(* C3: no two rows have the same issued_to identity. *)
C3_OneRowPerIdentity ==
  \A i, j \in 1..Len(rows) : i # j => rows[i].issued_to # rows[j].issued_to

(* C4: no two rows have the same code; an INSERT of a code that another
   caller inserted after the pre-check adds no row and is retried. *)
C4_UniqueCodes ==
  [][ /\ \A i, j \in 1..Len(rows') : i # j => rows'[i].code # rows'[j].code
      /\ \A p \in Procs :
           (pc[p] = "insert" /\ pc'[p] # "insert" /\ RowsWithCode(arg[p]) # {}) =>
             /\ rows' = rows
             /\ \/ pc'[p] = "gen" /\ attempts'[p] = attempts[p] + 1
                \/ ret'.kind = "GenerationFailed"
    ]_vars

C4_Witness ==
  \E p, q \in Procs :
    /\ pc[p] = "insert" /\ RowsWithCode(arg[p]) # {}
    /\ pc[q] = "idle" /\ ret = Ret("CodeSent", Some(arg[p]), Some(DISCOUNT_TEMPLATE))

(* C5: a row is marked used only by an actor of the admin list. *)
C5_OnlyAdminsRedeem == \A i \in UsedRows : rows[i].used_by \in Admins

(* C6: a row is created only by a get_promo request whose membership reply
   was member, administrator or creator, and it is issued to the requester. *)
C6_IssueGated ==
  [][ Len(rows') # Len(rows) =>
        \E p \in Procs :
          /\ pc[p] = "insert" /\ pc'[p] = "idle"
          /\ status[p] \in {"member", "administrator", "creator"}
          /\ rows' = Append(rows, rows'[Len(rows')])
          /\ rows'[Len(rows')].issued_to = Some(user[p])
    ]_vars

C6_Witness == ret.kind \in IssuedKinds /\ Len(rows) >= 1

(* C7: no attempt is made once attempts has reached MAX_ATTEMPTS; the
   collision that makes it MAX_ATTEMPTS returns GenerationFailed; a collision
   adds no row. *)
C7_Exhaustion ==
  [][ \A p \in Procs :
        /\ attempts[p] < MAX_ATTEMPTS
        /\ (pc[p] \in {"precheck", "insert"} /\ pc'[p] # pc[p] /\ RowsWithCode(arg[p]) # {}) =>
             /\ rows' = rows
             /\ IF attempts[p] + 1 = MAX_ATTEMPTS
                  THEN pc'[p] = "idle" /\ ret' = Ret("GenerationFailed", Null, Null)
                  ELSE pc'[p] = "gen" /\ attempts'[p] = attempts[p] + 1
    ]_vars

C7_Witness ==
  /\ ret.kind = "GenerationFailed"
  /\ Len(rows) = MAX_ATTEMPTS
  /\ RowsIssuedTo("@alice") = {}

(* C8: when the pre-check or the INSERT fails and the code is in no row (the
   failure is not a uniqueness violation), Issue returns GenerationFailed at
   once: no further attempt, no row. *)
C8_NoRetryOnFailure ==
  [][ \A p \in Procs :
        /\ (pc[p] = "insert" /\ pc'[p] # "insert" /\ RowsWithCode(arg[p]) = {} /\ Len(rows') = Len(rows)) =>
             pc'[p] = "idle" /\ ret' = Ret("GenerationFailed", Null, Null) /\ rows' = rows
        /\ (pc[p] = "precheck" /\ pc'[p] \notin {"precheck", "insert"} /\ RowsWithCode(arg[p]) = {}) =>
             pc'[p] = "idle" /\ ret' = Ret("GenerationFailed", Null, Null) /\ rows' = rows
    ]_vars

C8_Witness == ret.kind = "GenerationFailed" /\ rows = <<>>

(* C9: a used row has used_at and used_by, an unused row has neither. *)
C9_UsedFields ==
  \A i \in 1..Len(rows) :
    IF rows[i].is_used
      THEN rows[i].used_at # Null /\ rows[i].used_by # Null
      ELSE rows[i].used_at = Null /\ rows[i].used_by = Null

C9_Witness == UsedRows # {} /\ UsedRows # 1..Len(rows)

(* C10: a used row stays used, no row is deleted, and a row's used_at and
   used_by, once set, are never written again. *)
C10_WriteOnce ==
  [][ /\ Len(rows') >= Len(rows)
      /\ \A i \in UsedRows : rows'[i] = rows[i]
    ]_vars

FailedRedeems == {"CodeNotFound", "NotIssued", "AlreadyUsed"}

(* C11: a Redeem of a code that is in no row (rows are never deleted, so it
   was never inserted) returns CodeNotFound unless the store raises, and a
   step that ends a Redeem with CodeNotFound, NotIssued or AlreadyUsed changes
   no row. *)
C11_FailedRedeem ==
  [][ /\ \A p \in Procs :
           (pc[p] = "ap_select" /\ pc'[p] # "ap_select" /\ RowsWithCode(arg[p]) = {}) =>
             /\ pc'[p] = "idle"
             /\ ret' = Ret("CodeNotFound", Some(arg[p]), Null) \/ ret'.kind = "Raised"
      /\ ret'.kind \in FailedRedeems => rows' = rows
    ]_vars

C11_Witness ==
  /\ ret.kind = "CodeNotFound"
  /\ rows # <<>>
  /\ \A i \in 1..Len(rows) : Some(rows[i].code) # ret.code

StatsLabels == {"st_total", "st_issued", "st_used"}

(* C12: with calls that do not overlap, after I successful Issue calls and R
   successful Redeem calls Stats reports total = I, issued = I, used = R and
   active = I - R, with 0 <= active <= total, and no step of Stats changes a
   row. *)
C12_Stats ==
  [][ /\ ret'.kind = "Stats" =>
           LET s == ret'.value[1]
               I == BagCardinality(issued')
               R == BagCardinality(redeemed')
           IN /\ s.total = I /\ s.issued = I /\ s.used = R /\ s.active = I - R
              /\ s.issued = s.total /\ 0 <= s.active /\ s.active <= s.total
      /\ \A p \in Procs : (pc[p] \in StatsLabels /\ pc'[p] # pc[p]) => rows' = rows
    ]_vars

C12_Witness ==
  /\ ret.kind = "Stats"
  /\ ret.value[1] = [total |-> 2, issued |-> 2, used |-> 1, active |-> 1]
  /\ BagCardinality(issued) = 2 /\ BagCardinality(redeemed) = 1

(* C13: when an operation on the store has returned or raised, no connection
   that it opened is still open. *)
C13_ConnectionsReleased ==
  /\ leaked = 0
  /\ \A p \in Procs : pc[p] = "idle" => ~conn[p]

RedeemLabels == {"ap_select", "ap_update"}
RedeemKinds == {"Redeemed"} \cup FailedRedeems

(* C14: a call of create_promo_code_for_user ends with a code or with
   GenerationFailed, and a call of apply_promo_code ends with Redeemed,
   CodeNotFound, NotIssued or AlreadyUsed: no failure of the store leaves
   either call as an exception. *)
C14_NoRawFailure ==
  [][ \A p \in Procs :
        /\ (pc[p] \in IssueLabels /\ pc'[p] = "idle") =>
             ret'.kind \in IssuedKinds \cup {"GenerationFailed"}
        /\ (pc[p] \in RedeemLabels /\ pc'[p] = "idle") => ret'.kind \in RedeemKinds
    ]_vars

(* C15: every call of create_promo_code_for_user that has started ends: the
   caller gets back to idle with a code or with GenerationFailed. *)
C15_IssueReturns == \A p \in Procs : (pc[p] \in IssueLabels) ~> (pc[p] = "idle")

WellFormed(code) ==
  /\ Len(code) = Len(CODE_PREFIX) + CODE_LENGTH
  /\ StartsWith(code, CODE_PREFIX)
  /\ \A i \in Len(CODE_PREFIX) + 1..Len(code) : \E k \in 1..Len(Alphabet) : code[i] = Alphabet[k]

(* C16: every code that generate_unique_code has returned to a caller, and
   every code of a row, is the prefix followed by CODE_LENGTH characters,
   each an uppercase letter or a digit. *)
C16_CodeFormat ==
  /\ \A p \in Procs : pc[p] \in {"precheck", "insert"} => WellFormed(arg[p])
  /\ \A i \in 1..Len(rows) : WellFormed(rows[i].code)

C16_Witness ==
  /\ rows # <<>>
  /\ \E p \in Procs : pc[p] = "insert" /\ RowsWithCode(arg[p]) = {}

(* C17: the step in which create_promo_code_for_user(identity) returns
   (code, discount_value) appends one row to the table: the returned code,
   the template as discount_value, issued_to = identity, not used, used_at
   and used_by null; it changes no other row, the returned discount is the
   template, and no other step of the call writes to the table. *)
C17_IssueFrame ==
  [][ \A p \in Procs :
        /\ (pc[p] \in IssueLabels /\ pc'[p] = "idle" /\ ret'.kind \in IssuedKinds) =>
             /\ ret'.code = Some(arg[p]) /\ ret'.value = Some(DISCOUNT_TEMPLATE)
             /\ Len(rows') = Len(rows) + 1
             /\ \A i \in 1..Len(rows) : rows'[i] = rows[i]
             /\ rows'[Len(rows')] =
                  [code |-> arg[p], discount_value |-> DISCOUNT_TEMPLATE, is_used |-> FALSE,
                   used_at |-> Null, issued_to |-> Some(user[p]), used_by |-> Null]
             /\ CopiesIn(user[p], issued') = CopiesIn(user[p], issued) + 1
        /\ (pc[p] \in IssueLabels /\ (pc'[p] # pc[p] \/ arg'[p] # arg[p])
              /\ ret'.kind \notin IssuedKinds) => rows' = rows
    ]_vars

C17_Witness ==
  /\ ret.kind \in IssuedKinds
  /\ Len(rows) = 2
  /\ Some(rows[2].code) = ret.code
  /\ rows[1].is_used

(* C18: every row has an issued_to that is neither null nor empty, and no
   Redeem returns NotIssued. *)
C18_NotIssuedUnreachable ==
  /\ \A i \in 1..Len(rows) : ~Falsy(rows[i].issued_to)
  /\ ret.kind # "NotIssued"

C18_Witness ==
  /\ ret.kind \in {"Redeemed", "AlreadyUsed"}
  /\ \E i \in 1..Len(rows) : Some(rows[i].code) = ret.code /\ ~Falsy(rows[i].issued_to)

(* C19: a get_promo request that has created a row ends with the code
   delivered to the user, as the QR photo or as the text of the message. *)
C19_Delivered == ret.kind \in IssuedKinds => ret.kind \in {"CodeSent", "PhotoOnly"}

(* C20: with calls that do not overlap, the code that generate_unique_code
   returned is still free at the pre-check and at the INSERT, so no call
   takes the collision branches: attempts stays 0, no call goes back to draw
   again, and an INSERT that the store does not fail creates the row. *)
C20_FirstAttempt ==
  [][ \A p \in Procs :
        /\ attempts'[p] = 0
        /\ pc[p] \in {"precheck", "insert"} =>
             /\ RowsWithCode(arg[p]) = {}
             /\ pc'[p] # "gen"
        /\ (pc[p] = "insert" /\ pc'[p] = "idle" /\ ret'.kind # "GenerationFailed") =>
             ret'.kind \in IssuedKinds /\ Len(rows') = Len(rows) + 1
    ]_vars

C20_Witness ==
  /\ ret.kind \in IssuedKinds
  /\ Len(rows) = 2
  /\ Some(rows[2].code) = ret.code
  /\ \A p \in Procs : pc[p] = "idle" /\ attempts[p] = 0

====
